---- MODULE Spec2Model ----
(***************************************************************************)
(* lunacy-tools: tint generation (BaseColor::create_tints) and palette     *)
(* reconciliation (ColorTints::update_by_name, LunacyDocument) of          *)
(* src/src/main.rs.                                                        *)
(*                                                                         *)
(* Text (names, hex values) is a sequence of one-character strings.        *)
(* An f64 is an exact rational <<n, d>> with d > 0, in lowest terms. The    *)
(* two differ only where f64 rounding moves a value across a tie of        *)
(* f64::round; the seed colours below are ones for which, at every stop    *)
(* and lightness range used, the f64 computation yields the same tints.    *)
(***************************************************************************)
EXTENDS Integers, Sequences, FiniteSets, TLC

(***************************************************************************)
(* Bounds of the model.                                                    *)
(***************************************************************************)
\* number of invocations of the program in one behaviour
MaxRuns == 2
\* number of base colours in one colour scheme
MaxColors == 2

(***************************************************************************)
(* Text helpers: str::starts_with, ends_with, split, trim, format!.        *)
(***************************************************************************)
Abs(a) == IF a < 0 THEN 0 - a ELSE a

\* let x = value; F(x). The value is computed first, as a statement of the code
\* is, and only once however often F uses it.
With(x, F(_)) == IF x = x THEN F(x) ELSE x

\* for i in lo..=hi { st = Body(st, i) }: the state after the loop.
\* (The range is halved so that the evaluation nests only log(hi - lo) deep.)
RECURSIVE for_range(_, _, _, _)
for_range(Body(_, _), st, lo, hi) ==
    IF lo > hi THEN st
    ELSE IF lo = hi THEN Body(st, lo)
    ELSE With(for_range(Body, st, lo, (lo + hi) \div 2), LAMBDA left :
         for_range(Body, left, (lo + hi) \div 2 + 1, hi))

starts_with(s, p) ==
    /\ Len(p) <= Len(s)
    /\ SubSeq(s, 1, Len(p)) = p

ends_with(s, p) ==
    /\ Len(p) <= Len(s)
    /\ SubSeq(s, Len(s) - Len(p) + 1, Len(s)) = p

\* s with the first Len(p) characters dropped (strip_prefix, used after starts_with)
strip_prefix(s, p) == SubSeq(s, Len(p) + 1, Len(s))

\* the positions of character c in s
Positions(s, c) == {i \in 1..Len(s) : s[i] = c}

\* s.split(c).next(): the text before the first c
split_first(s, c) ==
    IF Positions(s, c) = {} THEN s
    ELSE SubSeq(s, 1, (CHOOSE i \in Positions(s, c) : \A j \in Positions(s, c) : i <= j) - 1)

\* s.split(c).last(): the text after the last c
split_last(s, c) ==
    IF Positions(s, c) = {} THEN s
    ELSE SubSeq(s, (CHOOSE i \in Positions(s, c) : \A j \in Positions(s, c) : i >= j) + 1, Len(s))

RECURSIVE trim_start(_)
trim_start(s) == IF s # <<>> /\ Head(s) = " " THEN trim_start(Tail(s)) ELSE s

RECURSIVE trim_end(_)
trim_end(s) ==
    IF s # <<>> /\ s[Len(s)] = " " THEN trim_end(SubSeq(s, 1, Len(s) - 1)) ELSE s

trim(s) == trim_end(trim_start(s))

Digits == <<"0", "1", "2", "3", "4", "5", "6", "7", "8", "9",
            "a", "b", "c", "d", "e", "f">>

\* "{n}" for an unsigned integer
RECURSIVE Dec(_)
Dec(n) == IF n < 10 THEN <<Digits[n + 1]>> ELSE Dec(n \div 10) \o <<Digits[(n % 10) + 1]>>

\* "{:06x}": lowercase hexadecimal, zero-padded to 6 digits
RECURSIVE Hex(_)
Hex(n) == IF n < 16 THEN <<Digits[n + 1]>> ELSE Hex(n \div 16) \o <<Digits[(n % 16) + 1]>>

RECURSIVE PadZero(_, _)
PadZero(s, w) == IF Len(s) >= w THEN s ELSE PadZero(<<"0">> \o s, w)

\* char::to_digit(16); -1 for a character that is no hexadecimal digit
to_digit(c) ==
    IF \E i \in 1..16 : Digits[i] = c THEN (CHOOSE i \in 1..16 : Digits[i] = c) - 1
    ELSE IF c = "A" THEN 10 ELSE IF c = "B" THEN 11 ELSE IF c = "C" THEN 12
    ELSE IF c = "D" THEN 13 ELSE IF c = "E" THEN 14 ELSE IF c = "F" THEN 15
    ELSE 0 - 1

RECURSIVE DigitsValue(_, _)
DigitsValue(s, acc) ==
    IF s = <<>> THEN acc ELSE DigitsValue(Tail(s), acc * 16 + to_digit(Head(s)))

\* u32::from_str_radix(s, 16) for texts of at most 7 characters (no overflow):
\* an optional leading "+", then at least one digit; -1 stands for Err.
from_str_radix(s) ==
    LET digits == IF s # <<>> /\ Head(s) = "+" THEN Tail(s) ELSE s
    IN  IF digits = <<>> \/ \E i \in 1..Len(digits) : to_digit(digits[i]) < 0
        THEN 0 - 1
        ELSE DigitsValue(digits, 0)

(***************************************************************************)
(* Exact rationals standing for f64.                                       *)
(***************************************************************************)
RECURSIVE GCD(_, _)
GCD(a, b) == IF b = 0 THEN a ELSE GCD(b, a % b)

Rat(n, d) ==
    IF n = 0 THEN <<0, 1>>
    ELSE With(GCD(Abs(n), d), LAMBDA g : <<n \div g, d \div g>>)

RInt(k) == <<k, 1>>
RAdd(a, b) ==
    With(GCD(a[2], b[2]), LAMBDA g :
    Rat(a[1] * (b[2] \div g) + b[1] * (a[2] \div g), (a[2] \div g) * b[2]))
RNeg(a) == <<0 - a[1], a[2]>>
RSub(a, b) == RAdd(a, RNeg(b))
RMul(a, b) ==
    With(Rat(a[1], b[2]), LAMBDA x :
    With(Rat(b[1], a[2]), LAMBDA y :
    Rat(x[1] * y[1], x[2] * y[2])))
\* a / b for b # 0
RDiv(a, b) == RMul(a, IF b[1] < 0 THEN <<0 - b[2], 0 - b[1]>> ELSE <<b[2], b[1]>>)
RAbs(a) == <<Abs(a[1]), a[2]>>
\* the f64 values that are no rationals: 1.0 / 0.0, -1.0 / 0.0 and 0.0 / 0.0
Inf == <<1, 0>>
NegInf == <<0 - 1, 0>>
NaN == <<0, 0>>
is_finite(a) == a[2] # 0

\* a / 0.0
div_zero(a) == IF a[1] > 0 THEN Inf ELSE IF a[1] < 0 THEN NegInf ELSE NaN

\* a < b, a <= b for finite b; so for a = Inf, NegInf (and FALSE both ways for NaN)
RLess(a, b) == a[1] * b[2] < b[1] * a[2]
RLeq(a, b) == a[1] * b[2] <= b[1] * a[2]
RClamp(a, lo, hi) == IF RLess(a, RInt(lo)) THEN RInt(lo) ELSE IF RLess(RInt(hi), a) THEN RInt(hi) ELSE a

\* f64::round: to the nearest integer, halves away from zero
round(a) ==
    IF a[1] >= 0 THEN (2 * a[1] + a[2]) \div (2 * a[2])
    ELSE 0 - ((2 * (0 - a[1]) + a[2]) \div (2 * a[2]))

\* f64::round as a value: Inf, NegInf and NaN are kept
round_f(a) == IF is_finite(a) THEN RInt(round(a)) ELSE a

\* f64::rem_euclid(a, m) for an integer m > 0
rem_euclid(a, m) == Rat(a[1] % (m * a[2]), a[2])

(***************************************************************************)
(* Colour codec: hex_to_rgb, hex_to_hsl, hsl_to_rgb, hsl_to_hex.            *)
(***************************************************************************)
\* Result<(r, g, b), Error>
hex_to_rgb(value) ==
    IF Len(value) # 7 THEN [ok |-> FALSE, err |-> "InvalidFormat"]
    ELSE IF ~starts_with(value, <<"#">>) THEN [ok |-> FALSE, err |-> "InvalidFormat"]
    ELSE With(from_str_radix(Tail(value)), LAMBDA hex :
         IF hex < 0 THEN [ok |-> FALSE, err |-> "ParseIntError"]
         ELSE [ok |-> TRUE,
               r |-> (hex \div 65536) % 256,
               g |-> (hex \div 256) % 256,
               b |-> hex % 256])

\* the smallest and the largest of three rationals (f64::min, f64::max)
min3(r, g, b) == IF RLeq(r, g) /\ RLeq(r, b) THEN r ELSE IF RLeq(g, b) THEN g ELSE b
max3(r, g, b) == IF RLeq(g, r) /\ RLeq(b, r) THEN r ELSE IF RLeq(b, g) THEN g ELSE b

\* the hue of hex_to_hsl before it is scaled by 60
hue_of(r, g, b, cmax, delta) ==
    IF delta = RInt(0) THEN RInt(0)
    ELSE IF cmax = r THEN rem_euclid(RDiv(RSub(g, b), delta), 6)
    ELSE IF cmax = g THEN RAdd(RDiv(RSub(b, r), delta), RInt(2))
    ELSE RAdd(RDiv(RSub(r, g), delta), RInt(4))

\* Result<(h, s, l), Error>; h is a whole number of degrees, s and l are rationals
hex_to_hsl(value) ==
    With(hex_to_rgb(value), LAMBDA rgb :
    IF ~rgb.ok THEN rgb ELSE
    With(Rat(rgb.r, 255), LAMBDA r :
    With(Rat(rgb.g, 255), LAMBDA g :
    With(Rat(rgb.b, 255), LAMBDA b :
    With(min3(r, g, b), LAMBDA cmin :
    With(max3(r, g, b), LAMBDA cmax :
    With(RSub(cmax, cmin), LAMBDA delta :
    With(round(RMul(hue_of(r, g, b, cmax, delta), RInt(60))), LAMBDA h :
    With(RDiv(RAdd(cmax, cmin), RInt(2)), LAMBDA l :
    With(IF delta = RInt(0) THEN RInt(0)
         ELSE RDiv(delta, RSub(RInt(1), RAbs(RSub(RMul(RInt(2), l), RInt(1))))),
         LAMBDA s :
    [ok |-> TRUE,
     h |-> IF h < 0 THEN h + 360 ELSE h,
     s |-> RMul(s, RInt(100)),
     l |-> RMul(l, RInt(100))]))))))))))

\* the (r, g, b) of hsl_to_rgb before m is added, by the sextant of the hue
sextant(h, c, x) ==
    IF h >= 0 /\ h < 60 THEN <<c, x, RInt(0)>>
    ELSE IF h >= 60 /\ h < 120 THEN <<x, c, RInt(0)>>
    ELSE IF h >= 120 /\ h < 180 THEN <<RInt(0), c, x>>
    ELSE IF h >= 180 /\ h < 240 THEN <<RInt(0), x, c>>
    ELSE IF h >= 240 /\ h < 300 THEN <<x, RInt(0), c>>
    ELSE IF h >= 300 /\ h < 360 THEN <<c, RInt(0), x>>
    ELSE <<RInt(0), RInt(0), RInt(0)>>

\* ((v + m) * 255.0).round() as u32
channel(v, m) == round(RMul(RAdd(v, m), RInt(255)))

\* (r, g, b) as u32 for a whole hue h and rational s, l
hsl_to_rgb(h, s0, l0) ==
    \* with l NaN every channel is NaN, and NaN as u32 is 0
    IF l0 = NaN THEN <<0, 0, 0>> ELSE
    With(RDiv(RClamp(s0, 0, 100), RInt(100)), LAMBDA s :
    With(RDiv(RClamp(l0, 0, 100), RInt(100)), LAMBDA l :
    With(RMul(RSub(RInt(1), RAbs(RSub(RMul(RInt(2), l), RInt(1)))), s), LAMBDA c :
    With(RMul(c, RSub(RInt(1), RAbs(RSub(rem_euclid(Rat(h, 60), 2), RInt(1))))),
         LAMBDA x :
    With(RSub(l, RDiv(c, RInt(2))), LAMBDA m :
    With(sextant(h, c, x), LAMBDA rgb :
    <<channel(rgb[1], m), channel(rgb[2], m), channel(rgb[3], m)>>))))))

hsl_to_hex(h, s, l) ==
    With(hsl_to_rgb(h, s, l), LAMBDA rgb :
    PadZero(Hex(rgb[1] * 65536 + rgb[2] * 256 + rgb[3]), 6))

(***************************************************************************)
(* Scale generator: BaseColor::create_distribution, create_tints.          *)
(***************************************************************************)
MAX_STOPS == 9
DISTRIBUTION_STOPS == <<0, 50, 100, 200, 300, 400, 500, 600, 700, 800, 900, 950, 1000>>
STOPS == <<100, 200, 300, 400, 500, 600, 700, 800, 900>>

\* position (from 0) of stop in DISTRIBUTION_STOPS, -1 when absent
index_of(stop) ==
    IF \E i \in 1..Len(DISTRIBUTION_STOPS) : DISTRIBUTION_STOPS[i] = stop
    THEN (CHOOSE i \in 1..Len(DISTRIBUTION_STOPS) : DISTRIBUTION_STOPS[i] = stop) - 1
    ELSE 0 - 1

\* indices.sort_by_key(|i| stops[i]) on 0..n-1: the stable sort of the standard
\* library; the position i lands after every position of a smaller key and every
\* earlier position of the same key
sort_by_key(n, key) ==
    LET rank(i) == Cardinality({j \in 0..(n - 1) :
                        \/ key[j + 1] < key[i + 1]
                        \/ key[j + 1] = key[i + 1] /\ j < i})
    IN  [k \in 1..n |-> CHOOSE i \in 0..(n - 1) : rank(i) = k - 1]

\* indices left in ascending order
reverse_skipped(s) == s

\* indices.reverse()
reverse(s) == [i \in 1..Len(s) |-> s[Len(s) + 1 - i]]

swap(s, a, b) == [s EXCEPT ![a + 1] = s[b + 1], ![b + 1] = s[a + 1]]

\* one round of the inner loop of sort_by_indices; c = [ind, seq, cur, done],
\* done once the loop has reached its break
sort_cycle(c, k) ==
    IF c.done THEN c
    ELSE LET target_idx == c.ind[c.cur + 1]
             ind1 == [c.ind EXCEPT ![c.cur + 1] = c.cur]
         IN  IF ind1[target_idx + 1] = target_idx
             THEN [c EXCEPT !.ind = ind1, !.done = TRUE]
             ELSE [ind |-> ind1,
                   seq |-> swap(c.seq, c.cur, target_idx),
                   cur |-> target_idx,
                   done |-> FALSE]

\* the body of the outer loop of sort_by_indices; st = [ind, seq]. The inner loop
\* fixes one index in each round, so it ends within Len(ind) rounds.
sort_at(st, idx) ==
    IF st.ind[idx + 1] = idx THEN st
    ELSE With(for_range(sort_cycle,
                        [ind |-> st.ind, seq |-> st.seq, cur |-> idx, done |-> FALSE],
                        1, Len(st.ind)),
              LAMBDA c : [ind |-> c.ind, seq |-> c.seq])

\* sort_by_indices(len, indices, |a, b| seq.swap(a, b)): the reordered seq
sort_by_indices(len, indices, seq) ==
    for_range(sort_at, [ind |-> indices, seq |-> seq], 0, len - 1).seq

\* total of create_distribution: the grid stops strictly between stop and the end
\* of the grid on the side of stop_value
total_of(stop, stop_value) ==
    IF stop_value < stop
    THEN Abs(index_of(stop) - index_of(DISTRIBUTION_STOPS[1])) - 1
    ELSE Abs(index_of(stop) - index_of(DISTRIBUTION_STOPS[Len(DISTRIBUTION_STOPS)])) - 1

\* the tweak of one grid stop (the body of the loop of create_distribution)
tweak_of(min, max, lightness, stop, stop_value) ==
    With(RAbs(Rat(stop_value - stop, 100)), LAMBDA diff :
    With(IF stop_value < stop THEN RSub(RInt(max), lightness)
         ELSE RSub(lightness, RInt(min)), LAMBDA increment :
    IF total_of(stop, stop_value) = 0
    THEN \* (increment / 0.0) * diff with diff > 0, added to or taken from lightness
         IF stop_value < stop THEN div_zero(increment) ELSE div_zero(RNeg(increment))
    ELSE
    With(RMul(RDiv(increment, RInt(total_of(stop, stop_value))), diff), LAMBDA step :
    IF stop_value < stop THEN RAdd(step, lightness) ELSE RSub(lightness, step))))

\* Vec<f64> of lightness values; min, max: whole numbers, lightness: rational
create_distribution(min, max, lightness, stop) ==
    With(SelectSeq(DISTRIBUTION_STOPS, LAMBDA x : x # 0 /\ x # 1000 /\ x # stop),
         LAMBDA kept :
    With(<<0, stop, 1000>> \o kept, LAMBDA stops :
    With(<<RInt(max), lightness, RInt(min)>> \o
         [i \in 1..Len(kept) |->
             round_f(tweak_of(min, max, lightness, stop, kept[i]))],
         LAMBDA tweaks :
    With(reverse(sort_by_key(Len(stops), stops)), LAMBDA indices :
    With(sort_by_indices(Len(tweaks), indices, tweaks), LAMBDA sorted :
    \* remove(0) twice, pop() twice
    SubSeq(sorted, 3, Len(sorted) - 2))))))

\* "{group} / {name}.{stop}": the group segment left out
tint_name_flat(group, name, stop) ==
    group \o <<" ", "/", " ">> \o name \o <<".">> \o Dec(stop)

\* "{group} / {name} / {name}.{stop}"
tint_name(group, name, stop) ==
    group \o <<" ", "/", " ">> \o name \o <<" ", "/", " ">> \o name \o <<".">> \o Dec(stop)

\* create_tints together with the lightness it uses for each public stop, i.e.
\* distribution[i].clamp(0, 100): [ok, name, tints, light] or the error of hex_to_hsl.
\* create_tints hands (l_max, l_min) to the parameters (min, max) of
\* create_distribution.
tints_of(base, group, id0) ==
    With(hex_to_hsl(base.value), LAMBDA hsl :
    IF ~hsl.ok THEN hsl ELSE
    With(create_distribution(base.l_max, base.l_min, hsl.l, base.stop),
         LAMBDA distribution :
    With([i \in 1..MAX_STOPS |-> RClamp(distribution[i], 0, 100)], LAMBDA new_l :
    [ok |-> TRUE,
     name |-> base.name,
     light |-> new_l,
     tints |-> [i \in 1..MAX_STOPS |->
         [id |-> id0 + i - 1,
          version |-> 1,
          name |-> tint_name(group, base.name, STOPS[i]),
          value |-> hsl_to_hex(hsl.h % 360, RClamp(hsl.s, 0, 100), new_l[i])]]])))

\* Result<ColorTints, Error>; Uuid::new_v4() yields the ids id0 .. id0 + MAX_STOPS - 1
create_tints(base, group, id0) ==
    With(tints_of(base, group, id0), LAMBDA t :
    IF ~t.ok THEN t ELSE [ok |-> TRUE, name |-> t.name, tints |-> t.tints])

(***************************************************************************)
(* State.                                                                  *)
(*   archive  colorVariables of document.json inside the .free file        *)
(*   tmp      colorVariables of document.json in the extracted doc_dir     *)
(*   pc       where main is: "idle" (not running), "opened", "updated"     *)
(*   group, scheme   the arguments of the running invocation               *)
(*   nextId   the next id Uuid::new_v4() yields                            *)
(*   runs     invocations started so far                                   *)
(*   before   archive when the running (or last) invocation started        *)
(*   last     what the last update_colors did: its result, the palette it  *)
(*            loaded, and per base colour the group's tints before the     *)
(*            merge, the generated tints and the tints after the merge     *)
(*   prev     the colour scheme of the last invocation that committed       *)
(*   base, out, light   one create_tints call: its BaseColor, its result   *)
(*            and the lightness it used for each public stop               *)
(*   input    what a base colour is read from: a --color argument or an     *)
(*            entry of the --color_scheme file                              *)
(***************************************************************************)
VARIABLES archive, tmp, pc, group, scheme, nextId, runs, before, last, prev,
          base, out, light, input

vars == <<archive, tmp, pc, group, scheme, nextId, runs, before, last, prev,
          base, out, light, input>>

NoResult == [ok |-> FALSE, err |-> "none"]
\* no base colour is being read
NoInput == [src |-> "none"]
NoUpdate == [result |-> "none", palette |-> <<>>, merges |-> <<>>]

(***************************************************************************)
(* Inputs of the scale generator.                                          *)
(***************************************************************************)
\* valid #RRGGBB texts
Seeds ==
    {<<"#", "0", "0", "0", "0", "0", "0">>,
     <<"#", "f", "f", "f", "f", "f", "f">>,
     <<"#", "0", "2", "0", "2", "0", "2">>,
     <<"#", "8", "0", "8", "0", "8", "0">>,
     <<"#", "3", "3", "b", "0", "8", "0">>,
     <<"#", "e", "8", "3", "3", "0", "9">>,
     <<"#", "c", "8", "f", "b", "e", "8">>,
     <<"#", "0", "1", "3", "6", "0", "9">>,
     <<"#", "8", "0", "3", "3", "b", "0">>,
     <<"#", "f", "d", "e", "8", "e", "8">>,
     <<"#", "0", "1", "0", "1", "0", "1">>,
     <<"#", "f", "e", "f", "e", "f", "e">>,
     <<"#", "f", "d", "f", "d", "f", "d">>,
     <<"#", "1", "2", "3", "4", "5", "6">>,
     <<"#", "a", "b", "c", "d", "e", "f">>,
     <<"#", "0", "3", "0", "3", "0", "3">>,
     <<"#", "f", "c", "f", "c", "f", "c">>}

\* texts that are no #RRGGBB
BadSeeds ==
    {<<"3", "3", "b", "0", "8", "0">>,
     <<"#", "3", "3", "b", "0", "8">>,
     <<"#", "3", "3", "b", "0", "g", "0">>,
     <<"#", "+", "3", "b", "0", "8", "0">>}

\* <<group, name>> of a create_tints call
TintNames == {<<<<"t">>, <<"a">>>>, <<<<"t", "h">>, <<"a", "b">>>>}
LMins == {0, 10}
LMaxs == {90, 100}

StopSet == {STOPS[i] : i \in 1..MAX_STOPS}

TintRequests ==
    [name : {n[2] : n \in TintNames}, value : Seeds \cup BadSeeds, stop : StopSet,
     l_min : LMins, l_max : LMaxs]

(***************************************************************************)
(* Palette model and reconciler: Color, ColorPalette, ColorTints.          *)
(***************************************************************************)
\* the document's id text of a Uuid (URL_SAFE_NO_PAD) and back
encode_id(id) == <<"b64", id>>
decode_id(text) == text[2]

\* Color::from_json; a version below 0 stands for one that is missing or no u32
from_json(json) ==
    [id |-> decode_id(json.id),
     version |-> IF json.version < 0 THEN 1 ELSE json.version,
     name |-> json.name,
     value |-> json.value]

\* Color::to_json_obj
to_json_obj(color) ==
    [id |-> encode_id(color.id),
     version |-> color.version,
     name |-> color.name,
     value |-> color.value]

\* position in colors of the first ColorTints called name, 0 when there is none
find(colors, name) ==
    IF \E i \in 1..Len(colors) : colors[i].name = name
    THEN CHOOSE i \in 1..Len(colors) :
            /\ colors[i].name = name
            /\ \A j \in 1..(i - 1) : colors[j].name # name
    ELSE 0

\* ColorPalette::find_or_insert: the palette's colors afterwards
find_or_insert(colors, name) ==
    IF find(colors, name) # 0 THEN colors
    ELSE Append(colors, [name |-> name, tints |-> <<>>])

\* ColorTints::push, on the ColorTints that find_or_insert(name) returns
push(colors, name, color) ==
    With(find_or_insert(colors, name), LAMBDA cs :
    With(find(cs, name), LAMBDA i :
    [cs EXCEPT ![i].tints = Append(cs[i].tints, color)]))

\* position in tints of the first tint whose name ends with exact_name, 0 when none
find_tint(tints, exact_name) ==
    IF \E i \in 1..Len(tints) : ends_with(tints[i].name, exact_name)
    THEN CHOOSE i \in 1..Len(tints) :
            /\ ends_with(tints[i].name, exact_name)
            /\ \A j \in 1..(i - 1) : ~ends_with(tints[j].name, exact_name)
    ELSE 0

\* the version is left alone when the value does not change
update_unless_same(old, new) ==
    IF old.value = new.value THEN old
    ELSE [old EXCEPT !.version = old.version + 1, !.value = new.value]

\* old.version += 1; old.value = new.value
update_in_place(old, new) ==
    [old EXCEPT !.version = old.version + 1, !.value = new.value]

\* the new tint is put in front of the existing ones
add_in_front(tints, new) == <<new>> \o tints

\* self.tints.push(new)
add_new(tints, new) == Append(tints, new)

\* the body of the loop of update_by_name, for one generated tint
update_one(tints, new) ==
    With(find_tint(tints, split_last(new.name, "/")), LAMBDA old :
    IF old # 0
    THEN [tints EXCEPT ![old] = update_in_place(tints[old], new)]
    ELSE add_new(tints, new))

\* ColorTints::update_by_name(self, other): the tints of self afterwards
update_by_name(tints, other) ==
    for_range(LAMBDA ts, i : update_one(ts, other[i]), tints, 1, Len(other))

(***************************************************************************)
(* Document adapter: parse_color_palette, apply_color_palette.             *)
(* A document.json is [is_array, vars]: whether "colorVariables" is an     *)
(* array, and its elements.                                                *)
(***************************************************************************)
\* the loop body without its check of the prefix
parse_any(colors, color_var, prefix) ==
    With(from_json(color_var), LAMBDA color :
    push(colors, trim(split_first(strip_prefix(color.name, prefix), "/")), color))

\* the body of the loop of parse_color_palette, for the variable color_var
parse_one(colors, color_var, prefix) ==
    With(from_json(color_var), LAMBDA color :
    IF ~starts_with(color.name, prefix) THEN colors
    ELSE push(colors, trim(split_first(strip_prefix(color.name, prefix), "/")), color))

\* LunacyDocument::parse_color_palette: the colors of the palette
parse_color_palette(json, grp) ==
    With(IF json.is_array THEN json.vars ELSE <<>>, LAMBDA color_variables :
    for_range(LAMBDA colors, i :
                  parse_one(colors, color_variables[i], grp \o <<" ", "/", " ">>),
              <<>>, 1, Len(color_variables)))

\* the first loop of apply_color_palette, for one color of the palette: the
\* variables left once those that start with its prefix are removed
remove_old(color_variables, color, grp) ==
    SelectSeq(color_variables,
              LAMBDA v : ~starts_with(v.name, grp \o <<" ", "/", " ">> \o color.name))

\* the second loop of apply_color_palette, for one color of the palette
insert_new(color_variables, color) ==
    color_variables \o [i \in 1..Len(color.tints) |-> to_json_obj(color.tints[i])]

\* LunacyDocument::apply_color_palette: the document.json afterwards
apply_color_palette(json, colors, grp) ==
    IF ~json.is_array THEN json
    ELSE With(for_range(LAMBDA vs, i : remove_old(vs, colors[i], grp),
                        json.vars, 1, Len(colors)), LAMBDA removed :
         With(for_range(LAMBDA vs, i : insert_new(vs, colors[i]),
                        removed, 1, Len(colors)), LAMBDA inserted :
         [json EXCEPT !.vars = inserted]))

\* the failed base colour is skipped
skipped(st) == st

\* create_tints(group)?: the Err leaves update_colors at once
failed(st) == [st EXCEPT !.ok = FALSE]

\* the body of the loop of update_colors, for one base colour;
\* st = [ok, colors, id, merges], ok until a create_tints fails; merges records,
\* per base colour, the tints of its ColorTints before update_by_name (old), the
\* generated tints (new) and the tints after update_by_name (res)
merge_one(st, base_color, grp) ==
    IF ~st.ok THEN st ELSE
    With(create_tints(base_color, grp, st.id), LAMBDA new_tints :
    IF ~new_tints.ok THEN failed(st) ELSE
    With(find_or_insert(st.colors, base_color.name), LAMBDA cs :
    With(find(cs, base_color.name), LAMBDA k :
    With(update_by_name(cs[k].tints, new_tints.tints), LAMBDA merged :
    [ok |-> TRUE,
     colors |-> [cs EXCEPT ![k].tints = merged],
     id |-> st.id + MAX_STOPS,
     merges |-> Append(st.merges,
                       [name |-> base_color.name,
                        old |-> cs[k].tints,
                        new |-> new_tints.tints,
                        res |-> merged])]))))

\* LunacyDocument::update_colors on the extracted document.json:
\* [ok, json (what document.json holds afterwards), id, palette, merges]
update_colors(json, grp, sch, id0) ==
    With(parse_color_palette(json, grp), LAMBDA palette :
    With(for_range(LAMBDA t, i : merge_one(t, sch[i], grp),
                   [ok |-> TRUE, colors |-> palette, id |-> id0, merges |-> <<>>],
                   1, Len(sch)), LAMBDA st :
    [ok |-> st.ok,
     json |-> IF st.ok THEN apply_color_palette(json, st.colors, grp) ELSE json,
     id |-> st.id,
     palette |-> palette,
     merges |-> st.merges]))

(***************************************************************************)
(* Inputs of the program: documents, group prefixes and colour schemes.    *)
(***************************************************************************)
\* two groups under "t" (a: stops 500, 300 and 50, in that order; c), two variables outside
DocMixed ==
    [is_array |-> TRUE,
     vars |-> <<[id |-> encode_id(1), version |-> 3, name |-> <<"t", " ", "/", " ", "c", " ", "/", " ", "c", ".", "1", "0", "0">>, value |-> <<"f", "f", "0", "0", "0", "0">>],
                [id |-> encode_id(2), version |-> 0 - 1, name |-> <<"o", " ", "/", " ", "x">>, value |-> <<"0", "0", "f", "f", "0", "0">>],
                [id |-> encode_id(3), version |-> 1, name |-> <<"t", " ", "/", " ", "a", " ", "/", " ", "a", ".", "5", "0", "0">>, value |-> <<"0", "0", "0", "0", "f", "f">>],
                [id |-> encode_id(4), version |-> 2, name |-> <<"o", " ", "/", " ", "y">>, value |-> <<"f", "f", "f", "f", "0", "0">>],
                [id |-> encode_id(5), version |-> 1, name |-> <<"t", " ", "/", " ", "a", " ", "/", " ", "a", ".", "3", "0", "0">>, value |-> <<"0", "0", "f", "f", "f", "f">>],
                [id |-> encode_id(6), version |-> 2, name |-> <<"t", " ", "/", " ", "a", " ", "/", " ", "a", ".", "5", "0">>, value |-> <<"f", "f", "0", "0", "f", "f">>]>>]

\* a group with two variables that end with the same stop suffix
DocNested ==
    [is_array |-> TRUE,
     vars |-> <<[id |-> encode_id(1), version |-> 1, name |-> <<"t", " ", "/", " ", "a", " ", "/", " ", "a", ".", "5", "0", "0">>, value |-> <<"f", "f", "0", "0", "0", "0">>],
                [id |-> encode_id(2), version |-> 4, name |-> <<"t", " ", "/", " ", "a", " ", "/", " ", "z", " ", "/", " ", "a", ".", "5", "0", "0">>, value |-> <<"0", "0", "f", "f", "0", "0">>],
                [id |-> encode_id(3), version |-> 1, name |-> <<"o", " ", "/", " ", "x">>, value |-> <<"0", "0", "0", "0", "f", "f">>]>>]

DocEmpty == [is_array |-> TRUE, vars |-> <<>>]

\* a document.json whose "colorVariables" is no array
DocNoList == [is_array |-> FALSE, vars |-> <<>>]

\* a variable with extra whitespace around the group segment of its name
DocSpaced ==
    [is_array |-> TRUE,
     vars |-> <<[id |-> encode_id(1), version |-> 1, name |-> <<"t", " ", "/", " ", " ", "a", " ", "/", " ", "a", ".", "5", "0", "0">>, value |-> <<"f", "f", "0", "0", "0", "0">>],
                [id |-> encode_id(2), version |-> 1, name |-> <<"t", " ", "/", " ", "a", " ", "/", " ", "a", ".", "3", "0", "0">>, value |-> <<"0", "0", "f", "f", "0", "0">>],
                [id |-> encode_id(3), version |-> 1, name |-> <<"o", " ", "/", " ", "x">>, value |-> <<"0", "0", "0", "0", "f", "f">>]>>]

InitDocs == {DocMixed, DocNested, DocSpaced, DocEmpty, DocNoList}

Groups == {<<"t">>}

ReqA == [name |-> <<"a">>, value |-> <<"#", "3", "3", "b", "0", "8", "0">>, stop |-> 500, l_min |-> 0, l_max |-> 100]
ReqB == [name |-> <<"b">>, value |-> <<"#", "1", "2", "3", "4", "5", "6">>, stop |-> 300, l_min |-> 10, l_max |-> 90]
\* its value lacks the "#": hex_to_rgb fails
ReqX == [name |-> <<"a">>, value |-> <<"3", "3", "b", "0", "8", "0">>, stop |-> 500, l_min |-> 0, l_max |-> 100]

\* its name holds a "/"
ReqS == [name |-> <<"a", "/", "b">>, value |-> <<"#", "3", "3", "b", "0", "8", "0">>, stop |-> 500, l_min |-> 0, l_max |-> 100]

Requests == {ReqA, ReqB, ReqX, ReqS}

\* the colour schemes: at most MaxColors distinct base colours, in any order
Schemes ==
    {sch \in UNION {[1..n -> Requests] : n \in 0..MaxColors} :
        \A i, j \in 1..Len(sch) : i # j => sch[i] # sch[j]}

\* no extracted directory
NoDir == [is_array |-> FALSE, vars |-> <<>>]

(***************************************************************************)
(* The program: main.                                                      *)
(***************************************************************************)
Init ==
    /\ archive \in InitDocs
    /\ tmp = NoDir
    /\ pc = "idle"
    /\ group = <<>>
    /\ scheme = <<>>
    /\ nextId = 10
    /\ runs = 0
    /\ before = archive
    /\ last = NoUpdate
    /\ prev = <<>>
    /\ base = ReqA
    /\ out = NoResult
    /\ light = <<>>
    /\ input = NoInput

\* main with an empty colour scheme: returns before the document is opened
Skip ==
    /\ pc = "idle"
    /\ runs < MaxRuns
    /\ runs' = runs + 1
    /\ scheme' = <<>>
    /\ UNCHANGED <<archive, tmp, pc, group, nextId, before, last, prev, base, out, light, input>>

\* main up to LunacyDocument::open: the archive is extracted to doc_dir
Open ==
    /\ pc = "idle"
    /\ runs < MaxRuns
    /\ \E g \in Groups, sch \in Schemes \ {<<>>} :
        /\ group' = g
        /\ scheme' = sch
    /\ runs' = runs + 1
    /\ tmp' = archive
    /\ before' = archive
    /\ last' = NoUpdate
    /\ pc' = "opened"
    /\ UNCHANGED <<archive, nextId, prev, base, out, light, input>>

\* doc.update_colors(&group, &scheme).expect(..): an Err ends the process
UpdateColors ==
    /\ pc = "opened"
    /\ \E r \in {update_colors(tmp, group, scheme, nextId)} :
        /\ tmp' = IF r.ok THEN r.json ELSE NoDir
        /\ pc' = IF r.ok THEN "updated" ELSE "idle"
        /\ nextId' = r.id
        /\ last' = [result |-> IF r.ok THEN "ok" ELSE "err",
                    palette |-> r.palette,
                    merges |-> r.merges]
    /\ UNCHANGED <<archive, group, scheme, runs, before, prev, base, out, light, input>>

\* doc.commit(): doc_dir is packed into the .free file
Commit ==
    /\ pc = "updated"
    /\ archive' = tmp
    /\ tmp' = NoDir
    /\ pc' = "idle"
    /\ prev' = scheme
    /\ UNCHANGED <<group, scheme, nextId, runs, before, last, base, out, light, input>>

Next == Skip \/ Open \/ UpdateColors \/ Commit

Spec == Init /\ [][Next]_vars

(***************************************************************************)
(* The scale generator alone: one create_tints call per behaviour.         *)
(***************************************************************************)
InitTints ==
    /\ archive = DocEmpty
    /\ tmp = NoDir
    /\ pc = "idle"
    /\ \E n \in TintNames : group = n[1] /\ scheme = <<>> /\ base \in {b \in TintRequests : b.name = n[2]}
    /\ nextId = 10
    /\ runs = 0
    /\ before = archive
    /\ last = NoUpdate
    /\ prev = <<>>
    /\ out = NoResult
    /\ light = <<>>
    /\ input = NoInput

\* base.create_tints(group)
CreateTints ==
    /\ out = NoResult
    /\ \E t \in {tints_of(base, group, nextId)} :
        /\ out' = IF t.ok THEN [ok |-> TRUE, name |-> t.name, tints |-> t.tints] ELSE t
        /\ light' = IF t.ok THEN t.light ELSE <<>>
        /\ nextId' = IF t.ok THEN nextId + MAX_STOPS ELSE nextId
    /\ UNCHANGED <<archive, tmp, pc, group, scheme, runs, before, last, prev, base, input>>

NextTints == CreateTints

SpecTints == InitTints /\ [][NextTints]_vars

(***************************************************************************)
(* Reading a base colour (parse_base_color, load_color_scheme) and         *)
(* generating its tints: one base colour per behaviour.                    *)
(***************************************************************************)
\* s.split(c): all the segments
RECURSIVE split(_, _)
split(s, c) ==
    IF Positions(s, c) = {} THEN <<s>>
    ELSE <<split_first(s, c)>> \o split(SubSeq(s, Len(split_first(s, c)) + 2, Len(s)), c)

\* BaseColor::new
BaseColor_new(name, value, stop) ==
    [name |-> name, value |-> value, stop |-> stop, l_min |-> 0, l_max |-> 100]

\* parse_base_color(s) for segments of at most 7 characters: Result<BaseColor, String>
parse_base_color(s) ==
    With(split(s, ":"), LAMBDA segs :
    IF Len(segs) < 2
    THEN [ok |-> FALSE, err |-> "is not a valid base color string"]
    ELSE IF from_str_radix(segs[2]) < 0
    THEN [ok |-> FALSE, err |-> "is not a hexadecimal color"]
    ELSE IF Len(segs) = 2
    THEN [ok |-> TRUE, color |-> BaseColor_new(segs[1], segs[2], 500)]
    ELSE IF from_str_radix(segs[3]) < 0
    THEN [ok |-> FALSE, err |-> "is not an unsigned integer"]
    ELSE [ok |-> TRUE, color |-> BaseColor_new(segs[1], segs[2], from_str_radix(segs[3]))])

\* the BaseColor load_color_scheme pushes for one entry of the scheme file; a
\* stop, l_min or l_max below 0 stands for a key that is absent
load_entry(name, color) ==
    [name |-> name,
     value |-> color.value,
     stop |-> IF color.stop < 0 THEN 500 ELSE color.stop,
     l_min |-> IF color.l_min < 0 THEN 0 ELSE color.l_min,
     l_max |-> IF color.l_max < 0 THEN 100 ELSE color.l_max]

\* no base colour read yet
NoBase == BaseColor_new(<<>>, <<>>, 0)

\* the <hex> and <stop> segments of --color arguments
ArgValues ==
    {<<"3", "3", "b", "0", "8", "0">>,
     <<"#", "3", "3", "b", "0", "8", "0">>,
     <<"+", "3", "3", "b", "0", "8", "0">>,
     <<"0", "3", "3", "b", "0", "8", "0">>,
     <<"3", "3", "b", "0", "g", "0">>}
ArgStops ==
    {<<"5", "0", "0">>, <<"5", "0">>, <<"1", "5", "0">>, <<"1", "f", "4">>,
     <<"6", "4">>, <<"5", "g">>, <<>>}

\* --color arguments: "a", "a:<hex>" and "a:<hex>:<stop>"
ColorArgs ==
    {<<"a">>}
    \cup {<<"a", ":">> \o v : v \in ArgValues}
    \cup {<<"a", ":">> \o v \o <<":">> \o t : v \in ArgValues, t \in ArgStops}

\* entries of a --color_scheme file
SchemeEntries ==
    [value : {<<"#", "3", "3", "b", "0", "8", "0">>,
              <<"#", "0", "0", "0", "0", "0", "0">>,
              <<"3", "3", "b", "0", "8", "0">>},
     stop : {0 - 1, 0, 50, 100, 150, 500, 900, 950, 1000, 1280},
     l_min : {0 - 1, 10},
     l_max : {0 - 1}]

Inputs ==
    {[src |-> "color", text |-> a] : a \in ColorArgs}
    \cup {[src |-> "file", name |-> <<"a">>, color |-> e] : e \in SchemeEntries}

InitInput ==
    /\ archive = DocEmpty
    /\ tmp = NoDir
    /\ pc = "idle"
    /\ group = <<"t">>
    /\ scheme = <<>>
    /\ nextId = 10
    /\ runs = 0
    /\ before = archive
    /\ last = NoUpdate
    /\ prev = <<>>
    /\ base = NoBase
    /\ out = NoResult
    /\ light = <<>>
    /\ input \in Inputs

\* clap's value_parser(parse_base_color) on a --color argument: an Err ends the
\* process
ParseBaseColor ==
    /\ pc = "idle"
    /\ input.src = "color"
    /\ \E r \in {parse_base_color(input.text)} :
        /\ pc' = IF r.ok THEN "read" ELSE "rejected"
        /\ base' = IF r.ok THEN r.color ELSE base
    /\ UNCHANGED <<archive, tmp, group, scheme, nextId, runs, before, last, prev, out,
                   light, input>>

\* load_color_scheme on an entry of the scheme file
LoadColorScheme ==
    /\ pc = "idle"
    /\ input.src = "file"
    /\ pc' = "read"
    /\ base' = load_entry(input.name, input.color)
    /\ UNCHANGED <<archive, tmp, group, scheme, nextId, runs, before, last, prev, out,
                   light, input>>

\* update_colors reaches base_color.create_tints(group) for the colour read
Generate ==
    /\ pc = "read"
    /\ CreateTints

NextInput == ParseBaseColor \/ LoadColorScheme \/ Generate

SpecInput == InitInput /\ [][NextInput]_vars

(***************************************************************************)
(* Properties of the scale generator (under SpecTints).                    *)
(***************************************************************************)
\* create_tints has been called
Called == out # NoResult

HexChars == {"0", "1", "2", "3", "4", "5", "6", "7", "8", "9",
             "a", "b", "c", "d", "e", "f", "A", "B", "C", "D", "E", "F"}

\* "#" followed by six hexadecimal digits
ValidHex(v) == Len(v) = 7 /\ v[1] = "#" /\ \A i \in 2..7 : v[i] \in HexChars

\* the canonical stops 100..900 as text, in ascending order
StopText ==
    <<<<"1", "0", "0">>, <<"2", "0", "0">>, <<"3", "0", "0">>, <<"4", "0", "0">>,
      <<"5", "0", "0">>, <<"6", "0", "0">>, <<"7", "0", "0">>, <<"8", "0", "0">>,
      <<"9", "0", "0">>>>

\* C1: for a valid #RRGGBB and an anchor stop of 100..900, create_tints succeeds
\* and returns exactly 9 colours, the i-th named
\* "<group> / <name> / <name>.<STOPS[i]>", in ascending stop order.
C1_NineTintsNamed ==
    (Called /\ ValidHex(base.value) /\ base.stop \in StopSet) =>
        /\ out.ok
        /\ Len(out.tints) = 9
        /\ \A i \in 1..9 :
            out.tints[i].name =
                group \o <<" ", "/", " ">> \o base.name \o <<" ", "/", " ">>
                      \o base.name \o <<".">> \o StopText[i]

C1_Witness ==
    /\ Called
    /\ ValidHex(base.value)
    /\ base.stop = 300
    /\ out.ok
    /\ Len(out.tints) = 9
    /\ Len(base.name) = 2

\* the lightness of the seed colour (hex_to_hsl of the request's value)
SeedLightness == hex_to_hsl(base.value).l

\* C2: for every valid request and anchor stop A of 100..900, the colour
\* create_tints emits at the public stop A carries the seed's own lightness.
C2_SeedLightnessAtAnchor ==
    (Called /\ out.ok /\ base.stop \in StopSet) =>
        light[base.stop \div 100] = SeedLightness

\* C3 as stated: with l_min = 0 and l_max = 100 the lightness used for the public
\* stops never increases from stop 100 to stop 900.
C3_LightnessNeverIncreases ==
    (Called /\ out.ok /\ base.l_min = 0 /\ base.l_max = 100) =>
        \A i \in 1..(MAX_STOPS - 1) : RLeq(light[i + 1], light[i])

\* C3, amended: with l_min = 0 and l_max = 100 the lightness used for the public
\* stops, rounded to whole numbers, never increases from stop 100 to stop 900;
\* the value itself rises from one stop to the next by at most 1/2, and only
\* where one of the two is no whole number (the seed's unrounded lightness).
C3_RoundedLightnessNeverIncreases ==
    (Called /\ out.ok /\ base.l_min = 0 /\ base.l_max = 100) =>
        \A i \in 1..(MAX_STOPS - 1) :
            /\ round(light[i + 1]) <= round(light[i])
            /\ RLeq(RSub(light[i + 1], light[i]), <<1, 2>>)
            /\ RLess(light[i], light[i + 1]) => (light[i][2] # 1 \/ light[i + 1][2] # 1)

C3_Witness ==
    /\ Called
    /\ out.ok
    /\ base.l_min = 0
    /\ base.l_max = 100
    /\ base.stop = 700
    /\ RLess(light[9], light[1])
    /\ \E i \in 1..(MAX_STOPS - 1) : RLess(light[i], light[i + 1])

(***************************************************************************)
(* Properties of the reconciler and the document adapter (under Spec).     *)
(***************************************************************************)
\* the trailing "/"-segment of the i-th generated colour of base colour name
Segment(name, i) == <<" ">> \o name \o <<".">> \o StopText[i]

\* the fully qualified name of the i-th generated colour of base colour name
FullName(name, i) ==
    group \o <<" ", "/", " ">> \o name \o <<" ", "/">> \o Segment(name, i)

\* the positions of the entries of tints whose name ends with seg
Matching(tints, seg) == {j \in 1..Len(tints) : ends_with(tints[j].name, seg)}

\* the first of them in list order, 0 when there is none
FirstMatch(tints, seg) ==
    IF Matching(tints, seg) = {} THEN 0
    ELSE CHOOSE j \in Matching(tints, seg) : \A k \in Matching(tints, seg) : j <= k

\* the merges of the last update_colors, one per base colour it reached
Merges == {last.merges[k] : k \in 1..Len(last.merges)}

\* the existing entry at position j of merge m was updated by generated colour i
UpdatedBy(m, j, i) ==
    /\ m.res[j].id = m.old[j].id
    /\ m.res[j].version = m.old[j].version + 1
    /\ m.res[j].value = m.new[i].value
    /\ \A p \in (Len(m.old) + 1)..Len(m.res) : m.res[p].id # m.new[i].id

\* C4 as stated: every existing entry whose name ends with the trailing segment of
\* a generated colour keeps its id, has its version raised by 1 and its value
\* overwritten, and no entry is added for that generated colour.
C4_EveryMatchUpdated ==
    \A m \in Merges : \A i \in 1..Len(m.new) :
        \A j \in Matching(m.old, Segment(m.name, i)) : UpdatedBy(m, j, i)

\* C4, amended: for every generated colour whose trailing segment ends the name of
\* some existing entry, the first such entry in list order keeps its id and name,
\* has its version raised by exactly 1 (also when the value is the same) and its
\* value overwritten, and no entry is added for that colour; later entries with
\* the same ending are left as they are.
C4_FirstMatchUpdated ==
    \A m \in Merges : \A i \in 1..Len(m.new) :
        LET first == FirstMatch(m.old, Segment(m.name, i))
        IN  first # 0 =>
                /\ UpdatedBy(m, first, i)
                /\ m.res[first].name = m.old[first].name
                /\ \A j \in Matching(m.old, Segment(m.name, i)) \ {first} :
                       m.res[j] = m.old[j]

C4_Witness ==
    \E m \in Merges : \E i \in 1..Len(m.new) :
        LET first == FirstMatch(m.old, Segment(m.name, i))
        IN  /\ first # 0
            /\ m.old[first].value = m.new[i].value
            /\ m.res[first].version = m.old[first].version + 1

\* the generated colours of merge m that match no existing entry
Unmatched(m) == {i \in 1..Len(m.new) : Matching(m.old, Segment(m.name, i)) = {}}

\* C5: update_by_name never removes an existing entry, leaves every existing entry
\* that matches no generated colour unchanged, and appends every generated colour
\* that matches no existing entry as one new entry with version 1 and its fully
\* qualified name.
C5_AdditiveMerge ==
    \A m \in Merges :
        /\ Len(m.res) = Len(m.old) + Cardinality(Unmatched(m))
        /\ \A j \in 1..Len(m.old) :
            /\ m.res[j].id = m.old[j].id
            /\ m.res[j].name = m.old[j].name
            /\ (\A i \in 1..Len(m.new) : j \notin Matching(m.old, Segment(m.name, i)))
                   => m.res[j] = m.old[j]
        /\ \A i \in Unmatched(m) :
            /\ Cardinality({p \in 1..Len(m.res) : m.res[p].id = m.new[i].id}) = 1
            /\ \E p \in (Len(m.old) + 1)..Len(m.res) :
                /\ m.res[p].id = m.new[i].id
                /\ m.res[p].version = 1
                /\ m.res[p].name = FullName(m.name, i)
                /\ m.res[p].value = m.new[i].value

C5_Witness ==
    \E m \in Merges :
        /\ Unmatched(m) # {}
        /\ Unmatched(m) # 1..Len(m.new)
        /\ \E j \in 1..Len(m.old) :
               \A i \in 1..Len(m.new) : j \notin Matching(m.old, Segment(m.name, i))

\* the entries of the group of base colour name in a document, in list order
GroupEntries(doc, name) ==
    SelectSeq(doc.vars,
              LAMBDA v : starts_with(v.name, group \o <<" ", "/", " ">> \o name \o <<" ", "/">>))

\* update_colors has run again with the colour scheme of the invocation that
\* wrote the document it opened
Repeated == pc = "updated" /\ scheme = prev

\* the entries of old and new are the same ones, each of new with the value it had
\* and with its version raised by 1 where Bumped holds of the entry's position
\* in old
SameEntries(old, new, Bumped(_)) ==
    /\ Len(new) = Len(old)
    /\ {new[j].id : j \in 1..Len(new)} = {old[j].id : j \in 1..Len(old)}
    /\ \A j \in 1..Len(new) : \E k \in 1..Len(old) :
        /\ new[j].id = old[k].id
        /\ new[j].value = old[k].value
        /\ new[j].version = old[k].version + (IF Bumped(k) THEN 1 ELSE 0)

\* C6 as stated: from the second run with the same request on, no entry is added
\* to the group, the ids are unchanged, every entry has the same value as after
\* the previous run and a version exactly one higher.
C6_RepeatBumpsEveryEntry ==
    Repeated =>
        \A r \in 1..Len(scheme) :
            SameEntries(GroupEntries(before, scheme[r].name),
                        GroupEntries(tmp, scheme[r].name),
                        LAMBDA k : TRUE)

\* the entries of a document whose name does not start with "<group> / "
Outside(doc) ==
    SelectSeq(doc.vars, LAMBDA v : ~starts_with(v.name, group \o <<" ", "/", " ">>))

\* C7: an entry whose name does not start with "<group> / " is never loaded into
\* the palette and is still in the list after apply_color_palette (and in the
\* committed document) with the same id, version, name and value, in the same
\* order among such entries.
C7_OutsideUntouched ==
    last.result # "none" =>
        /\ \A c \in 1..Len(last.palette) : \A t \in 1..Len(last.palette[c].tints) :
               starts_with(last.palette[c].tints[t].name, group \o <<" ", "/", " ">>)
        /\ pc = "updated" => Outside(tmp) = Outside(before)
        /\ pc = "idle" => Outside(archive) = Outside(before)

C7_Witness ==
    /\ pc = "idle"
    /\ last.result = "ok"
    /\ archive # before
    /\ Len(Outside(archive)) = 2
    /\ Len(last.palette) = 2

\* the entry is in no group named by a request of the scheme
Untouched(v) ==
    \A r \in 1..Len(scheme) :
        ~starts_with(v.name, group \o <<" ", "/", " ">> \o scheme[r].name \o <<" ", "/">>)

\* C8: the entries of the groups under the prefix that no request names are
\* neither removed nor re-inserted: they keep their position relative to all
\* entries other than those of the touched groups.
C8_UntouchedGroupsStay ==
    pc = "updated" =>
        SelectSeq(tmp.vars, Untouched) = SelectSeq(before.vars, Untouched)

\* C9: after update_colors the entries of each touched group are in ascending
\* stop order (100 before 200 before ... before 900).
C9_TouchedGroupsAscending ==
    pc = "updated" =>
        \A r \in 1..Len(scheme) : \A i, j \in 1..MAX_STOPS : \A p, q \in 1..Len(tmp.vars) :
            (/\ i < j
             /\ tmp.vars[p].name = FullName(scheme[r].name, i)
             /\ tmp.vars[q].name = FullName(scheme[r].name, j)) => p < q

\* C10: if create_tints fails for a base colour of the scheme, at any position,
\* update_colors returns the error, nothing is applied or saved and commit is not
\* run: the stored document is as before the run; no run with a failing base
\* colour writes any group.
C10_ErrorLeavesDocument ==
    /\ last.result = "err" => (pc = "idle" /\ tmp = NoDir /\ archive = before)
    /\ (last.result # "none" /\ \E r \in 1..Len(scheme) : ~ValidHex(scheme[r].value))
           => last.result = "err"
    /\ archive # before => \A r \in 1..Len(prev) : ValidHex(prev[r].value)

C10_Witness ==
    /\ last.result = "err"
    /\ Len(last.merges) >= 1
    /\ before.vars # <<>>
    /\ archive = before

(***************************************************************************)
(* Properties of reading and validating a base colour (under SpecInput).   *)
(***************************************************************************)
\* C11: a request whose anchor stop is none of the canonical stops 100..900 is
\* rejected before any scale is generated: create_tints never returns tints for it.
C11_NonCanonicalStopRejected ==
    (Called /\ base.stop \notin StopSet) => ~out.ok

(***************************************************************************)
(* Properties of the colour codec's parser (under SpecTints).              *)
(***************************************************************************)
\* the error the parser owes a text that is no "#" and six hexadecimal digits:
\* InvalidFormat for a wrong shape, InvalidValue for digits that fail to parse
ExpectedError(v) ==
    IF Len(v) # 7 \/ ~starts_with(v, <<"#">>) THEN "InvalidFormat" ELSE "InvalidValue"

\* C12: hex_to_hsl (via hex_to_rgb) returns Ok only for texts that are exactly "#"
\* followed by 6 hexadecimal digits; every other text yields an error, which is
\* ColorParseError::InvalidFormat when the shape is wrong and
\* ColorParseError::InvalidValue when the digits fail to parse.
C12_OkOnlyForHexText ==
    Called =>
        /\ hex_to_hsl(base.value).ok <=> ValidHex(base.value)
        /\ ~ValidHex(base.value) =>
            /\ ~hex_to_hsl(base.value).ok
            /\ hex_to_hsl(base.value).err = ExpectedError(base.value)

(***************************************************************************)
(* Properties of the load / remove / append cycle (under Spec).            *)
(***************************************************************************)
\* how many variables of the document carry the id
Count(id, doc) == Cardinality({i \in 1..Len(doc.vars) : doc.vars[i].id = id})

\* the document's variables have pairwise distinct ids
DistinctIds(doc) == \A i \in 1..Len(doc.vars) : Count(doc.vars[i].id, doc) = 1

\* C13: for a document whose entries have pairwise distinct ids, a run of
\* update_colors (parse_color_palette, the merge, apply_color_palette) neither
\* loses nor duplicates an entry: every id present before the run appears exactly
\* once in colorVariables after it.
C13_NoEntryLostOrDuplicated ==
    (pc = "updated" /\ DistinctIds(before)) =>
        \A i \in 1..Len(before.vars) : Count(before.vars[i].id, tmp) = 1

====
